---- MODULE Spec2Model ----
(***************************************************************************)
(* A model of libstd/result.rs: the two-variant Result<T, E> value, its    *)
(* accessors, transform and chain combinators, its iteration adapters and  *)
(* the fail-fast traversal helpers map_opt, map_vec, map_vec2, iter_vec2.  *)
(*                                                                         *)
(* A single task (the caller) constructs a Result, calls methods on it,    *)
(* possibly feeding a returned Result into the next call, or calls one of  *)
(* the free helpers on borrowed vectors.  A method is an operator from the *)
(* receiver and the closure to an outcome: the value returned (or the      *)
(* fail!() message) together with the arguments the closure was invoked    *)
(* on, in order.  The loops of the helpers run one iteration per step.     *)
(***************************************************************************)
EXTENDS Naturals, Sequences, FiniteSets, TLC

\* Longest vector handed to map_vec / map_vec2 / iter_vec2.
MaxLen == 3
\* Most method calls made in one session on a value and the values derived from it.
MaxCalls == 3
\* Most next() calls made on one OptionIterator.
MaxNext == 3

\* The payloads: every type parameter (T, E, U, V, F, S) ranges over Val.
Val == {0, 1}
\* The unit value ().
Unit == <<>>

Ok(t) == [tag |-> "Ok", val |-> t]
Err(e) == [tag |-> "Err", val |-> e]
\* Result<Val, Val>
Results == {Ok(v) : v \in Val} \cup {Err(v) : v \in Val}
\* Result<(), Val>
UnitResults == {Ok(Unit)} \cup {Err(v) : v \in Val}

Some(t) == [tag |-> "Some", val |-> t]
None == [tag |-> "None"]
Options == {None} \cup {Some(v) : v \in Val}

Left(e) == [tag |-> "Left", val |-> e]
Right(t) == [tag |-> "Right", val |-> t]

\* A value the caller no longer owns (moved into a by-value method).
Moved == [tag |-> "Moved"]

\* The closures handed to the combinators.
MapOps == [Val -> Val]
ChainOps == [Val -> Results]
PairOps == [Val \X Val -> Results]
UnitPairOps == [Val \X Val -> UnitResults]
\* No closure (a method that takes none).
NoOp == <<>>

\* E's ToStr and T's / E's Clone, supplied by the payload types.
to_str(e) == IF e = 0 THEN "0" ELSE "1"
clone(x) == x

\* How a call ends: normally with a value, or by fail!() with a message; calls
\* lists the arguments the closure was invoked on, in order.
\* (The messages are the source's, written without their backquotes.)
Return(v, c) == [kind |-> "return", val |-> v, calls |-> c]
Fail(msg) == [kind |-> "fail", val |-> msg, calls |-> <<>>]

to_either(self) ==
    IF self.tag = "Ok" THEN Return(Right(self.val), <<>>)
    ELSE Return(Left(self.val), <<>>)

get_ref(self) ==
    IF self.tag = "Ok" THEN Return(self.val, <<>>)
    ELSE Fail(<<"called Result::get_ref() on Err value: %s", to_str(self.val)>>)

is_ok(self) == Return(self.tag = "Ok", <<>>)

is_err(self) == Return(~is_ok(self).val, <<>>)

\* Option::consume(): the OptionIterator over an Option.
consume(o) == [opt |-> o]

\* iter without the match on the variant: the payload of either variant is yielded.
iter_any_variant(self) ==
    Return(consume(Some(self.val)), <<>>)

iter(self) ==
    Return(consume(IF self.tag = "Ok" THEN Some(self.val) ELSE None), <<>>)

iter_err(self) ==
    Return(consume(IF self.tag = "Ok" THEN None ELSE Some(self.val)), <<>>)

unwrap(self) ==
    IF self.tag = "Ok" THEN Return(self.val, <<>>)
    ELSE Fail(<<"called Result::unwrap() on Err value: %s", to_str(self.val)>>)

expect(self, reason) ==
    IF self.tag = "Ok" THEN Return(self.val, <<>>)
    ELSE Fail(<<reason>>)

\* expect_err with the Ok arm returning the payload instead of failing.
expect_err_lenient(self, reason) ==
    IF self.tag = "Err" THEN Return(self.val, <<>>)
    ELSE Return(self.val, <<>>)

expect_err(self, reason) ==
    IF self.tag = "Err" THEN Return(self.val, <<>>)
    ELSE Fail(<<reason>>)

unwrap_err(self) ==
    expect_err(self, "called Result::unwrap_err() on Ok value")

map_move(self, op) ==
    IF self.tag = "Ok" THEN Return(Ok(op[self.val]), <<self.val>>)
    ELSE Return(Err(self.val), <<>>)

map_err_move(self, op) ==
    IF self.tag = "Ok" THEN Return(Ok(self.val), <<>>)
    ELSE Return(Err(op[self.val]), <<self.val>>)

\* chain with the Err arm taken from chain_err: op is invoked on the failure too.
\* chain with the Err arm turning the failure into a success.
chain_swallowing_err(self, op) ==
    IF self.tag = "Ok" THEN Return(op[self.val], <<self.val>>)
    ELSE Return(Ok(self.val), <<>>)

chain_op_on_err(self, op) ==
    IF self.tag = "Ok" THEN Return(op[self.val], <<self.val>>)
    ELSE Return(op[self.val], <<self.val>>)

chain(self, op) ==
    IF self.tag = "Ok" THEN Return(op[self.val], <<self.val>>)
    ELSE Return(Err(self.val), <<>>)

chain_err(self, op) ==
    IF self.tag = "Ok" THEN Return(Ok(self.val), <<>>)
    ELSE Return(op[self.val], <<self.val>>)

map_err(self, op) ==
    IF self.tag = "Ok" THEN Return(Ok(clone(self.val)), <<>>)
    ELSE Return(Err(op[self.val]), <<self.val>>)

\* map with the Err arm of get_ref: it fails on an Err.
map_failing(self, op) ==
    IF self.tag = "Ok" THEN Return(Ok(op[self.val]), <<self.val>>)
    ELSE Fail(<<"called Result::map() on Err value: %s", to_str(self.val)>>)

map(self, op) ==
    IF self.tag = "Ok" THEN Return(Ok(op[self.val]), <<self.val>>)
    ELSE Return(Err(clone(self.val)), <<>>)

map_opt(o_t, op) ==
    IF o_t.tag = "None" THEN Return(Ok(None), <<>>)
    ELSE LET r == op[o_t.val]
         IN  IF r.tag = "Ok" THEN Return(Ok(Some(r.val)), <<o_t.val>>)
             ELSE Return(Err(r.val), <<o_t.val>>)

\* vec::same_length
same_length(xs, ys) == Len(xs) = Len(ys)

\* The vectors handed to the helpers.
Vecs == UNION {[1..k -> Val] : k \in 0..MaxLen}

\* The closure |s, t| op(s, t) with its output discarded: it fails exactly as
\* op does and returns Ok(()) where op returns Ok(v).
Discard(f) == [p \in DOMAIN f |-> IF f[p].tag = "Ok" THEN Ok(Unit) ELSE f[p]]

VARIABLES
    pc,        \* where the task is: "idle", "live" (holding a Result), inside a
               \* helper ("map_vec", "map_vec2", "iter_vec2"), "returned", "failed"
    self,      \* the Result the caller holds, or Moved
    m,         \* the last function called
    recv,      \* its receiver (or argument) as it was when the call was made
    op,        \* the closure of the call
    ret,       \* how the call ended: [kind, val]
    calls,     \* the closure's invocations during the call, in order
    ncalls,    \* method calls made in this session
    chainlog,  \* the chain calls of the composition r.chain(f1).chain(f2)... so far
    it,        \* the OptionIterator of the last iter() / iter_err(), or NoIter
    out,       \* what next() returned on it, in order
    views,     \* iter() / iter_err() calls made on the value held
    nexts,     \* next() calls made on all its views
    ss, ts,    \* the vectors of the helper running
    vs,        \* its output vector
    i,         \* its loop index
    prev       \* the ret and calls of the map_vec2 run an iter_vec2 run repeats

vars == <<pc, self, m, recv, op, ret, calls, ncalls, chainlog, it, out, views,
          nexts, ss, ts, vs, i, prev>>

NoRet == [kind |-> "none"]
NoIter == [tag |-> "NoIter"]
NoPrev == [ret |-> NoRet, calls |-> <<>>]

methodVars == <<self, ncalls, chainlog, it, out, views, nexts>>
helperVars == <<ss, ts, vs, i, prev>>

Init ==
    /\ pc = "idle"
    /\ self = Moved
    /\ m = "none"
    /\ recv = Moved
    /\ op = NoOp
    /\ ret = NoRet
    /\ calls = <<>>
    /\ ncalls = 0
    /\ chainlog = <<>>
    /\ it = NoIter
    /\ out = <<>>
    /\ views = 0
    /\ nexts = 0
    /\ ss = <<>>
    /\ ts = <<>>
    /\ vs = <<>>
    /\ i = 0
    /\ prev = NoPrev

\* The caller wraps a payload: Ok(t) or Err(e).
New(r) ==
    /\ pc = "idle"
    /\ pc' = "live"
    /\ self' = r
    /\ UNCHANGED <<m, recv, op, ret, calls, ncalls, chainlog, it, out, views, nexts>>
    /\ UNCHANGED helperVars

\* A method call on the value held: name(self, f) ends as o says and leaves the
\* caller holding after (self for a &self method, Moved for a by-value one).
\* fail!() ends the task.
Call(name, f, o, after) ==
    /\ pc = "live"
    /\ self # Moved
    /\ ncalls < MaxCalls
    /\ m' = name
    /\ recv' = self
    /\ op' = f
    /\ ret' = [kind |-> o.kind, val |-> o.val]
    /\ calls' = o.calls
    /\ pc' = IF o.kind = "fail" THEN "failed" ELSE "live"
    /\ self' = after
    /\ ncalls' = ncalls + 1
    /\ chainlog' = IF name = "chain"
                   THEN Append(chainlog, [recv |-> self, ret |-> o.val, n |-> Len(o.calls)])
                   ELSE <<>>
    /\ IF name \in {"iter", "iter_err"}
       THEN it' = o.val /\ views' = views + 1
       ELSE it' = NoIter /\ views' = IF after = Moved THEN 0 ELSE views
    /\ out' = <<>>
    /\ nexts' = IF after = Moved THEN 0 ELSE nexts
    /\ UNCHANGED helperVars

call_to_either == Call("to_either", NoOp, to_either(self), Moved)
call_get_ref == Call("get_ref", NoOp, get_ref(self), self)
call_is_ok == Call("is_ok", NoOp, is_ok(self), self)
call_is_err == Call("is_err", NoOp, is_err(self), self)
call_iter == Call("iter", NoOp, iter(self), self)
call_iter_err == Call("iter_err", NoOp, iter_err(self), self)
call_unwrap == Call("unwrap", NoOp, unwrap(self), Moved)
call_unwrap_err == Call("unwrap_err", NoOp, unwrap_err(self), Moved)
call_expect == Call("expect", NoOp, expect(self, "reason"), Moved)
call_expect_err == Call("expect_err", NoOp, expect_err(self, "reason"), Moved)
call_map_move == \E f \in MapOps : Call("map_move", f, map_move(self, f), Moved)
call_map_err_move == \E f \in MapOps : Call("map_err_move", f, map_err_move(self, f), Moved)
call_chain == \E f \in ChainOps : Call("chain", f, chain(self, f), Moved)
call_chain_err == \E f \in ChainOps : Call("chain_err", f, chain_err(self, f), Moved)
call_map_err == \E f \in MapOps : Call("map_err", f, map_err(self, f), self)
\* map taking self by value, as map_move does: the caller's value is gone.
call_map_by_value == \E f \in MapOps : Call("map", f, map(self, f), Moved)
call_map == \E f \in MapOps : Call("map", f, map(self, f), self)

\* The methods that return a Result<Val, Val>.
ResultReturning == {"map_move", "map_err_move", "chain", "chain_err", "map_err", "map"}

\* The caller goes on with the Result the last call returned: r.f(..).g(..).
Rebind ==
    /\ pc = "live"
    /\ m \in ResultReturning
    /\ ret.kind = "return"
    /\ self' = ret.val
    /\ m' = "none"
    /\ recv' = Moved
    /\ op' = NoOp
    /\ ret' = NoRet
    /\ calls' = <<>>
    /\ it' = NoIter
    /\ out' = <<>>
    /\ views' = 0
    /\ nexts' = 0
    /\ UNCHANGED <<pc, ncalls, chainlog>>
    /\ UNCHANGED helperVars

\* OptionIterator::next on the view held: the Option is taken, None is left.
next ==
    /\ pc = "live"
    /\ it # NoIter
    /\ Len(out) < MaxNext
    /\ out' = Append(out, it.opt)
    /\ it' = [opt |-> None]
    /\ nexts' = nexts + 1
    /\ UNCHANGED <<pc, self, m, recv, op, ret, calls, ncalls, chainlog, views>>
    /\ UNCHANGED helperVars

\* A helper is called: its arguments are bound, its locals are fresh.
Enter(name, a, b, f) ==
    /\ m' = name
    /\ ss' = a
    /\ ts' = b
    /\ op' = f
    /\ vs' = <<>>
    /\ i' = 0
    /\ calls' = <<>>
    /\ recv' = Moved
    /\ UNCHANGED methodVars

\* A helper returns r: its locals are gone.
Leave(r) ==
    /\ pc' = "returned"
    /\ ret' = [kind |-> "return", val |-> r]
    /\ vs' = <<>>
    /\ UNCHANGED <<i, m, recv, op, ss, ts, prev>>
    /\ UNCHANGED methodVars

\* assert!(vec::same_length(ss, ts)) does not hold: the task fails.
AssertFailed ==
    /\ pc' = "failed"
    /\ ret' = [kind |-> "fail", val |-> <<"assertion failed: vec::same_length(ss, ts)">>]

call_map_opt ==
    /\ pc = "idle"
    /\ \E o \in Options, f \in ChainOps :
        LET r == map_opt(o, f)
        IN  /\ pc' = "returned"
            /\ m' = "map_opt"
            /\ recv' = o
            /\ op' = f
            /\ ret' = [kind |-> r.kind, val |-> r.val]
            /\ calls' = r.calls
            /\ UNCHANGED methodVars
            /\ UNCHANGED helperVars

map_vec_begin ==
    /\ pc = "idle"
    /\ \E v \in Vecs, f \in ChainOps :
        /\ pc' = "map_vec"
        /\ Enter("map_vec", <<>>, v, f)
        /\ UNCHANGED <<ret, prev>>

\* map_vec's loop with the Err arm skipping the element instead of returning.
map_vec_step_skipping_err ==
    /\ pc = "map_vec"
    /\ i < Len(ts)
    /\ LET t == ts[i + 1]
           r == op[t]
       IN  /\ calls' = Append(calls, [idx |-> i, arg |-> t])
           /\ vs' = IF r.tag = "Ok" THEN Append(vs, r.val) ELSE vs
           /\ i' = i + 1
           /\ UNCHANGED <<pc, ret, m, recv, op, ss, ts, prev>>
           /\ UNCHANGED methodVars

\* map_vec's loop inserting each output at the front of vs.
map_vec_step_pushing_front ==
    /\ pc = "map_vec"
    /\ i < Len(ts)
    /\ LET t == ts[i + 1]
           r == op[t]
       IN  /\ calls' = Append(calls, [idx |-> i, arg |-> t])
           /\ IF r.tag = "Ok"
              THEN /\ vs' = <<r.val>> \o vs
                   /\ i' = i + 1
                   /\ UNCHANGED <<pc, ret, m, recv, op, ss, ts, prev>>
                   /\ UNCHANGED methodVars
              ELSE Leave(Err(r.val))

\* One turn of for t in ts.iter(): op(t) is pushed, or its Err returned.
map_vec_step ==
    /\ pc = "map_vec"
    /\ i < Len(ts)
    /\ LET t == ts[i + 1]
           r == op[t]
       IN  /\ calls' = Append(calls, [idx |-> i, arg |-> t])
           /\ IF r.tag = "Ok"
              THEN /\ vs' = Append(vs, r.val)
                   /\ i' = i + 1
                   /\ UNCHANGED <<pc, ret, m, recv, op, ss, ts, prev>>
                   /\ UNCHANGED methodVars
              ELSE Leave(Err(r.val))

map_vec_return ==
    /\ pc = "map_vec"
    /\ i = Len(ts)
    /\ Leave(Ok(vs))
    /\ UNCHANGED calls

\* map_vec2 without its assert!(vec::same_length(ss, ts)).
map_vec2_begin_unchecked ==
    /\ pc = "idle"
    /\ \E a \in Vecs, b \in Vecs, f \in PairOps :
        /\ Enter("map_vec2", a, b, f)
        /\ pc' = "map_vec2"
        /\ UNCHANGED <<ret, prev>>

map_vec2_begin ==
    /\ pc = "idle"
    /\ \E a \in Vecs, b \in Vecs, f \in PairOps :
        /\ Enter("map_vec2", a, b, f)
        /\ IF same_length(a, b)
           THEN pc' = "map_vec2" /\ UNCHANGED ret
           ELSE AssertFailed
        /\ UNCHANGED prev

\* n = ts.len()
n == Len(ts)

\* One turn of while i < n: op(&ss[i], &ts[i]) is pushed, or its Err returned.
map_vec2_step ==
    /\ pc = "map_vec2"
    /\ i < n
    /\ LET r == op[<<ss[i + 1], ts[i + 1]>>]
       IN  /\ calls' = Append(calls, [idx |-> i, arg |-> <<ss[i + 1], ts[i + 1]>>])
           /\ IF r.tag = "Ok"
              THEN /\ vs' = Append(vs, r.val)
                   /\ i' = i + 1
                   /\ UNCHANGED <<pc, ret, m, recv, op, ss, ts, prev>>
                   /\ UNCHANGED methodVars
              ELSE Leave(Err(r.val))

map_vec2_return ==
    /\ pc = "map_vec2"
    /\ ~(i < n)
    /\ Leave(Ok(vs))
    /\ UNCHANGED calls

iter_vec2_begin ==
    /\ pc = "idle"
    /\ \E a \in Vecs, b \in Vecs, f \in UnitPairOps :
        /\ Enter("iter_vec2", a, b, f)
        /\ IF same_length(a, b)
           THEN pc' = "iter_vec2" /\ UNCHANGED ret
           ELSE AssertFailed
        /\ UNCHANGED prev

\* The caller of map_vec2 calls iter_vec2 on the same vectors, with the same
\* closure but for its discarded output; what map_vec2 did is kept in prev.
iter_vec2_begin_after_map_vec2 ==
    /\ pc = "returned"
    /\ m = "map_vec2"
    /\ prev' = [ret |-> ret, calls |-> calls]
    /\ Enter("iter_vec2", ss, ts, Discard(op))
    /\ IF same_length(ss, ts)
       THEN pc' = "iter_vec2" /\ ret' = NoRet
       ELSE AssertFailed

\* iter_vec2's loop with the Err arm going on to the next pair.
iter_vec2_step_ignoring_err ==
    /\ pc = "iter_vec2"
    /\ i < n
    /\ calls' = Append(calls, [idx |-> i, arg |-> <<ss[i + 1], ts[i + 1]>>])
    /\ i' = i + 1
    /\ UNCHANGED <<pc, ret, vs, m, recv, op, ss, ts, prev>>
    /\ UNCHANGED methodVars

\* One turn of while i < n: op(&ss[i], &ts[i]) is Ok(()), or its Err returned.
iter_vec2_step ==
    /\ pc = "iter_vec2"
    /\ i < n
    /\ LET r == op[<<ss[i + 1], ts[i + 1]>>]
       IN  /\ calls' = Append(calls, [idx |-> i, arg |-> <<ss[i + 1], ts[i + 1]>>])
           /\ IF r.tag = "Ok"
              THEN /\ i' = i + 1
                   /\ UNCHANGED <<pc, ret, vs, m, recv, op, ss, ts, prev>>
                   /\ UNCHANGED methodVars
              ELSE Leave(Err(r.val))

iter_vec2_return ==
    /\ pc = "iter_vec2"
    /\ ~(i < n)
    /\ Leave(Ok(Unit))
    /\ UNCHANGED calls

Next ==
    \/ \E r \in Results : New(r)
    \/ call_to_either
    \/ call_get_ref
    \/ call_is_ok
    \/ call_is_err
    \/ call_iter
    \/ call_iter_err
    \/ call_unwrap
    \/ call_unwrap_err
    \/ call_expect
    \/ call_expect_err
    \/ call_map_move
    \/ call_map_err_move
    \/ call_chain
    \/ call_chain_err
    \/ call_map_err
    \/ call_map
    \/ Rebind
    \/ next
    \/ call_map_opt
    \/ map_vec_begin
    \/ map_vec_step
    \/ map_vec_return
    \/ map_vec2_begin
    \/ map_vec2_step
    \/ map_vec2_return
    \/ iter_vec2_begin
    \/ iter_vec2_begin_after_map_vec2
    \/ iter_vec2_step
    \/ iter_vec2_return

Spec == Init /\ [][Next]_vars

(***************************************************************************)
(* The properties.                                                         *)
(***************************************************************************)

Returned(v) == [kind |-> "return", val |-> v]

\* The first position (from 1) of v whose element f fails on, or 0.
FirstErr(v, f) ==
    LET bad == {j \in DOMAIN v : f[v[j]].tag = "Err"}
    IN  IF bad = {} THEN 0 ELSE CHOOSE j \in bad : \A h \in bad : j <= h

\* C1: Ok(t).chain(f) returns f(t) itself, f invoked exactly once (on t);
\* Err(e).chain(f) returns Err(e), f not invoked.
C1_ChainIsBind ==
    m = "chain" =>
        /\ recv.tag = "Ok" => ret = Returned(op[recv.val]) /\ calls = <<recv.val>>
        /\ recv.tag = "Err" => ret = Returned(Err(recv.val)) /\ calls = <<>>

\* chain was called on an Ok whose closure fails: the closure's Err came back as it is.
C1_Witness ==
    /\ m = "chain"
    /\ recv.tag = "Ok"
    /\ op[recv.val] = Err(1 - recv.val)
    /\ ret = Returned(Err(1 - recv.val))
    /\ calls = <<recv.val>>

\* C2: map_vec is fail-fast: with k the first position op fails on, op is
\* invoked once on each of the positions up to k in increasing order, never on
\* a later one, and the call returns the Err op gave at k (no outputs).
C2_MapVecFailFast ==
    m = "map_vec" =>
        LET k == FirstErr(ts, op)
        IN  k # 0 =>
                /\ Len(calls) <= k
                /\ \A j \in DOMAIN calls : calls[j] = [idx |-> j - 1, arg |-> ts[j]]
                /\ pc = "returned" =>
                       /\ Len(calls) = k
                       /\ ret = Returned(Err(op[ts[k]].val))

\* map_vec returned the Err of the second of three elements.
C2_Witness ==
    /\ m = "map_vec"
    /\ pc = "returned"
    /\ Len(ts) = 3
    /\ FirstErr(ts, op) = 2
    /\ Len(calls) = 2
    /\ ret.val.tag = "Err"

\* C3: when op succeeds on every element, map_vec returns Ok of a vector as
\* long as the input whose j-th element is the payload op gave for the j-th
\* input; map_vec(<<>>, op) returns Ok(<<>>) without invoking op.
C3_MapVecAllOk ==
    (m = "map_vec" /\ pc = "returned" /\ FirstErr(ts, op) = 0) =>
        /\ ret.kind = "return"
        /\ ret.val.tag = "Ok"
        /\ Len(ret.val.val) = Len(ts)
        /\ \A j \in DOMAIN ts : ret.val.val[j] = op[ts[j]].val
        /\ Len(calls) = Len(ts)
        /\ ts = <<>> => ret = Returned(Ok(<<>>)) /\ calls = <<>>

\* map_vec returned Ok of three outputs that are not all the same.
C3_Witness ==
    /\ m = "map_vec"
    /\ pc = "returned"
    /\ Len(ts) = 3
    /\ ret.val.tag = "Ok"
    /\ ret.val.val = <<op[ts[1]].val, op[ts[2]].val, op[ts[3]].val>>
    /\ ret.val.val[1] # ret.val.val[3]

\* C4: map_vec2 and iter_vec2 called on vectors of different lengths fail
\* before op is invoked and return nothing; on vectors of the same length the
\* task does not fail.
C4_PairedLengthPrecondition ==
    m \in {"map_vec2", "iter_vec2"} =>
        /\ Len(ss) # Len(ts) => pc = "failed" /\ ret.kind = "fail" /\ calls = <<>>
        /\ Len(ss) = Len(ts) => pc # "failed" /\ ret.kind # "fail"

\* map_vec2 was called on vectors of lengths 1 and 3 and failed.
C4_Witness ==
    /\ m = "map_vec2"
    /\ Len(ss) = 1
    /\ Len(ts) = 3
    /\ pc = "failed"
    /\ ret.kind = "fail"

NonFailing == {"map", "map_err", "map_move", "map_err_move", "chain", "chain_err",
               "iter", "iter_err"}
Extracting == {"unwrap", "unwrap_err", "expect", "expect_err", "get_ref"}

\* C5: map, map_err, map_move, map_err_move, chain, chain_err, iter and
\* iter_err always return normally; the task fails only in unwrap, unwrap_err,
\* expect, expect_err, get_ref, or in map_vec2 / iter_vec2 on unequal lengths.
C5_OnlyExtractorsFail ==
    /\ m \in NonFailing => ret.kind = "return" /\ pc = "live"
    /\ pc = "failed" =>
           \/ m \in Extracting
           \/ m \in {"map_vec2", "iter_vec2"} /\ Len(ss) # Len(ts)

\* The last of MaxCalls calls on a value that is an Err was a map.
C5_Witness ==
    /\ m = "map"
    /\ recv.tag = "Err"
    /\ ncalls = MaxCalls
    /\ pc = "live"
    /\ ret.kind = "return"

\* C6: unwrap, expect and get_ref return the payload of an Ok and fail on an
\* Err; unwrap_err and expect_err return the payload of an Err and fail on
\* an Ok; a call on the wrong variant returns nothing.
C6_WrongVariantIsFatal ==
    /\ m \in {"unwrap", "expect", "get_ref"} =>
           /\ recv.tag = "Ok" => ret = Returned(recv.val) /\ pc = "live"
           /\ recv.tag = "Err" => ret.kind = "fail" /\ pc = "failed"
    /\ m \in {"unwrap_err", "expect_err"} =>
           /\ recv.tag = "Err" => ret = Returned(recv.val) /\ pc = "live"
           /\ recv.tag = "Ok" => ret.kind = "fail" /\ pc = "failed"

\* unwrap_err was called on an Ok and the task failed.
C6_Witness ==
    /\ m = "unwrap_err"
    /\ recv.tag = "Ok"
    /\ pc = "failed"
    /\ ret.kind = "fail"

\* C7: in r.chain(f1).chain(f2)..., once r or a step is Err(e), no later
\* closure is invoked and every later result is that Err(e); while nothing
\* has failed, each step invokes its closure exactly once.
C7_ChainShortCircuits ==
    \A j \in DOMAIN chainlog :
        /\ chainlog[1].recv.tag = "Err" =>
               chainlog[j].n = 0 /\ chainlog[j].ret = chainlog[1].recv
        /\ \A h \in 1..(j - 1) :
               chainlog[h].ret.tag = "Err" =>
                   chainlog[j].n = 0 /\ chainlog[j].ret = chainlog[h].ret
        /\ (chainlog[1].recv.tag = "Ok" /\ \A h \in 1..(j - 1) : chainlog[h].ret.tag = "Ok")
               => chainlog[j].n = 1

\* A composition of three chains whose first step failed: each step's receiver
\* is the step before's result, and the last two closures were not invoked.
C7_Witness ==
    /\ Len(chainlog) = 3
    /\ chainlog[1].recv.tag = "Ok"
    /\ chainlog[1].n = 1
    /\ chainlog[1].ret.tag = "Err"
    /\ chainlog[2].recv = chainlog[1].ret
    /\ chainlog[3].recv = chainlog[2].ret
    /\ chainlog[3].n = 0
    /\ chainlog[3].ret = chainlog[1].ret

\* C8: after map or map_err the caller still holds the value it called it on,
\* and the side the closure does not touch comes back equal:
\* Err(e).map(op) = Err(e), Ok(t).map_err(op) = Ok(t).
C8_MapLeavesSelf ==
    m \in {"map", "map_err"} =>
        /\ self = recv
        /\ (m = "map" /\ recv.tag = "Err") => ret = Returned(recv) /\ calls = <<>>
        /\ (m = "map_err" /\ recv.tag = "Ok") => ret = Returned(recv) /\ calls = <<>>

\* map was called a second time on the Ok still held, after an earlier call.
C8_Witness ==
    /\ m = "map"
    /\ ncalls >= 2
    /\ recv.tag = "Ok"
    /\ self = recv
    /\ ret.val.tag = "Ok"
    /\ ret.val # recv

\* C9: a view made by iter() yields the payload of an Ok once and then
\* nothing, and yields nothing of an Err, whatever was taken from the views
\* made before it.
C9_IterZeroOrOne ==
    (m = "iter" /\ it # NoIter) =>
        /\ recv = self
        /\ \A j \in DOMAIN out :
               out[j] = IF j = 1 /\ self.tag = "Ok" THEN Some(self.val) ELSE None

\* The second view of an Ok, after next() calls on the first, yielded the
\* payload and then None.
C9_Witness ==
    /\ m = "iter"
    /\ views >= 2
    /\ nexts >= Len(out) + 2
    /\ self.tag = "Ok"
    /\ out = <<Some(self.val), None>>

\* C10: iter_vec2 run on the vectors of a map_vec2 run, with the same closure
\* but for its discarded outputs, invokes it on the same pairs in the same
\* order and stops where map_vec2 stopped; it returns the Err map_vec2
\* returned, and Ok(()) where map_vec2 returned Ok.
C10_IterVec2AgreesWithMapVec2 ==
    (m = "iter_vec2" /\ prev # NoPrev) =>
        /\ Len(calls) <= Len(prev.calls)
        /\ \A j \in DOMAIN calls : calls[j] = prev.calls[j]
        /\ pc # "failed"
        /\ pc = "returned" =>
               /\ calls = prev.calls
               /\ ret.kind = "return"
               /\ ret.val.tag = prev.ret.val.tag
               /\ ret.val.tag = "Err" => ret.val = prev.ret.val
               /\ ret.val.tag = "Ok" => ret.val = Ok(Unit)

\* Both helpers stopped at the second of three pairs with the same Err.
C10_Witness ==
    /\ m = "iter_vec2"
    /\ prev # NoPrev
    /\ pc = "returned"
    /\ Len(ts) = 3
    /\ Len(calls) = 2
    /\ ret.val.tag = "Err"
    /\ ret.val = prev.ret.val

====
